---- MODULE Spec2Model ----
(***************************************************************************)
(* Model of the dependency-closure relinking of build_binary.py:           *)
(* plat.linked (the Link Inspector), plat.relink (the Relinker), and       *)
(* _relink_1 (the closure walk), over a small file system.                 *)
(*                                                                         *)
(* A path is a record [dir, base]: dir is the sequence of directory        *)
(* components, base the file name, so that os.path.basename, dirname,     *)
(* join and relpath are computed and not looked up.                        *)
(***************************************************************************)
EXTENDS Naturals, Sequences, FiniteSets, TLC

VARIABLES
    environ,    \* os.environ: name -> value, for the names that are set
    pc,         \* the statement of main that is next
    steps,      \* the build steps main has carried out, in order
    plat,       \* sys.platform: which Platform record `plat` is (line 301)
    graph,      \* the references of each binary before the first walk
    dirs,       \* the directories on disk, of <prefix> and <prefix>/lib
    fs,         \* the files on disk: path -> link metadata of that file
    stack,      \* the call stack of _relink_1 frames, innermost last
    failed,     \* an exception is propagating: the process is aborting
    walks,      \* number of top-level _relink_1 calls that returned
    log         \* every inspection, rewrite, signature and copy, in order

\* the state of main outside the closure walk
main_vars == <<environ, pc, steps>>

vars == <<main_vars, plat, graph, dirs, fs, stack, failed, walks, log>>

(***************************************************************************)
(* Bounds of the model.                                                    *)
(***************************************************************************)
\* most references in one binary's link table
MaxRefs == 2
\* most references in the whole dependency graph
MaxEdges == 3
\* most top-level closure walks in one run
MaxWalks == 2

(***************************************************************************)
(* os.path on [dir, base] paths.                                           *)
(***************************************************************************)
Path(d, b) == [dir |-> d, base |-> b]

basename(p) == p.base

dirname(p) == p.dir

join(d, name) == [dir |-> d, base |-> name]

RECURSIVE CommonLen(_, _)
CommonLen(a, b) ==
    IF a = <<>> \/ b = <<>> \/ Head(a) # Head(b) THEN 0
    ELSE 1 + CommonLen(Tail(a), Tail(b))

Ups(n) == [i \in 1..n |-> ".."]

\* a relpath that forgets the way up from start (sensitivity of C4)
relpath_down(to, start) ==
    SubSeq(to, CommonLen(to, start) + 1, Len(to))

\* os.path.relpath(to, start) for two absolute directories
relpath(to, start) ==
    LET c == CommonLen(to, start)
    IN  Ups(Len(start) - c) \o SubSeq(to, c + 1, Len(to))

\* the directory reached from directory d by the relative directory rel
RECURSIVE Resolve(_, _)
Resolve(d, rel) ==
    IF rel = <<>> THEN d
    ELSE IF Head(rel) = ".."
         THEN Resolve(IF d = <<>> THEN d ELSE SubSeq(d, 1, Len(d) - 1), Tail(rel))
         ELSE Resolve(Append(d, Head(rel)), Tail(rel))

Range(s) == {s[i] : i \in 1..Len(s)}

(***************************************************************************)
(* The files of the model.                                                 *)
(***************************************************************************)
Plats == {"linux", "darwin"}

Prefix == <<"prefix">>
\* libdir of _relink: os.path.join(prefix, 'lib')
LibDir == <<"prefix", "lib">>
\* os.path.join(prefix, 'bin', version.py_minor)
Exe == Path(<<"prefix", "bin">>, "python3.8")
\* a module of os.listdir(dyn_dir)
DynSo == Path(<<"prefix", "lib", "python3.8", "lib-dynload">>, "_ssl.so")
Roots == {Exe, DynSo}

\* shared libraries of the build machine; LibAX and LibBX share a base name
LibAX == Path(<<"opt", "a">>, "libx")
LibBX == Path(<<"opt", "b">>, "libx")
LibAY == Path(<<"opt", "a">>, "liby")
LibAZ == Path(<<"opt", "a">>, "libz")
Libs == {LibAX, LibBX, LibAY, LibAZ}

\* a library of the base system, and a library no file stands for
SysLib == Path(<<"lib", "gnu">>, "libc.so.6")
GoneLib == Path(<<"opt", "gone">>, "libgone")
Targets == Libs \cup {SysLib, GoneLib}

\* the names a vendored library can have, and the files with a link table
BaseNames == {basename(p) : p \in Libs}
Vendored == {join(LibDir, b) : b \in BaseNames}
Binaries == Roots \cup Libs

(***************************************************************************)
(* The environment of the process, and _sanitize_environ (lines 304-312).  *)
(***************************************************************************)
\* the variables _sanitize_environ removes (line 306)
BuildFlags == {"CFLAGS", "CPPFLAGS", "LDFLAGS", "PKG_CONFIG_PATH"}

EnvNames == BuildFlags \cup {"PATH", "HOMEBREW_NO_AUTO_UPDATE", "SOME"}

\* the value line 312 gives PATH
MinimalPath == "/usr/bin:/bin:/usr/sbin:/sbin"

PathValues == {"/home/asottile/bin:/usr/bin:/bin", MinimalPath}

\* the environments of the model: any of the names set or not, PATH and
\* HOMEBREW_NO_AUTO_UPDATE to one of two values
Environs ==
    UNION {{[n \in D |-> IF n = "PATH" THEN p
                         ELSE IF n = "HOMEBREW_NO_AUTO_UPDATE" THEN h
                         ELSE IF n = "SOME" THEN "VARIABLE"
                         ELSE "-Ibroken"] : p \in PathValues, h \in {"0", "1"}}
           : D \in SUBSET EnvNames}

\* for k in keys: env.pop(k, None)
pop(env, keys) == [n \in DOMAIN env \ keys |-> env[n]]

\* env[k] = v
setitem(env, k, v) ==
    [n \in DOMAIN env \cup {k} |-> IF n = k THEN v ELSE env[n]]

\* an environment after _sanitize_environ
sanitized(env) ==
    setitem(setitem(pop(env, BuildFlags), "HOMEBREW_NO_AUTO_UPDATE", "1"),
            "PATH", MinimalPath)

(***************************************************************************)
(* Link metadata.  A reference is [kind, dir, base]: kind "abs" is an      *)
(* absolute path dir/base, kind "loader" is @loader_path/dir/base with dir *)
(* relative, kind "none" is no reference.  A file is                       *)
(*   id    its own install name (darwin LC_ID_DYLIB), or NoRef             *)
(*   refs  its link table, in order                                        *)
(*   rpath <<>> or <<rel>>: DT_RPATH $ORIGIN/rel (linux)                   *)
(*   sig   "orig", "broken" (mutated and not re-signed) or "adhoc"         *)
(***************************************************************************)
Abs(p) == [kind |-> "abs", dir |-> p.dir, base |-> p.base]

Loader(rel, b) == [kind |-> "loader", dir |-> rel, base |-> b]

NoRef == [kind |-> "none", dir |-> <<>>, base |-> ""]

PathOf(r) == [dir |-> r.dir, base |-> r.base]

File(id, refs) == [id |-> id, refs |-> refs, rpath |-> <<>>, sig |-> "orig"]

\* os.path.isfile / os.path.exists of an absolute path
isfile(disk, p) == p \in DOMAIN disk

(***************************************************************************)
(* The dependency graphs of the model: every assignment of at most MaxRefs *)
(* distinct references to each binary, MaxEdges in all, where only the     *)
(* binaries a walk can come across have references.  The extension module *)
(* among its own references stands for a module that otool -L lists under  *)
(* its own path (its install name, line 227).                              *)
(***************************************************************************)
EmptyGraph == [f \in Binaries |-> <<>>]

RECURSIVE ReachFrom(_, _)
ReachFrom(g, S) ==
    LET T == S \cup UNION {Range(g[f]) \cap Libs : f \in S}
    IN  IF T = S THEN S ELSE ReachFrom(g, T)

Extend(g) ==
    UNION {{[g EXCEPT ![f] = Append(@, t)] :
               t \in (Targets \cup ({f} \cap {DynSo})) \ Range(g[f])}
           : f \in {h \in ReachFrom(g, Roots) : Len(g[h]) < MaxRefs}}

RECURSIVE GraphsUpTo(_)
GraphsUpTo(k) ==
    IF k = 0 THEN {EmptyGraph}
    ELSE LET G == GraphsUpTo(k - 1) IN G \cup UNION {Extend(g) : g \in G}

Graphs == GraphsUpTo(MaxEdges)

\* the files of the build machine: on darwin the libraries of the base
\* system are in no file (line 230)
OnDisk(p) == Binaries \cup (IF p = "linux" THEN {SysLib} ELSE {})

\* path p is below directory d
Below(p, d) ==
    Len(p.dir) >= Len(d) /\ SubSeq(p.dir, 1, Len(d)) = d

\* the disk of a build machine whose binaries reference each other as in g
\* and where the directories ds exist: there is no file below a directory
\* that does not exist
Disk(p, g, ds) ==
    [f \in {h \in OnDisk(p) :
                \A d \in {Prefix, LibDir} \ ds : ~Below(h, d)} |->
        IF f \in Roots
        THEN LET others == SelectSeq(g[f], LAMBDA t : t # f)
             IN  File(IF f \in Range(g[f]) THEN Abs(f) ELSE NoRef,
                      [i \in 1..Len(others) |-> Abs(others[i])])
        ELSE IF f \in Libs
             THEN File(IF p = "darwin" THEN Abs(f) ELSE NoRef,
                       [i \in 1..Len(g[f]) |-> Abs(g[f][i])])
             ELSE File(NoRef, <<>>)]

\* the state before the first walk, the directories on disk being one of D
Start(D) ==
    /\ plat \in Plats
    /\ graph \in Graphs
    \* ldd does not list the object it is run on
    /\ plat = "linux" => \A f \in Roots : f \notin Range(graph[f])
    /\ dirs \in D
    /\ \A f \in Binaries :
         ~isfile(Disk(plat, graph, dirs), f) => graph[f] = <<>>
    /\ fs = Disk(plat, graph, dirs)
    /\ stack = <<>>
    /\ failed = FALSE
    /\ walks = 0
    /\ log = <<>>
    \* main is at line 482
    /\ environ = sanitized(<<>>)
    /\ pc = "relink"
    /\ steps = <<>>

\* _relink (line 410): libdir is <prefix>/lib of the installed tree, the
\* directory that holds lib-dynload: it exists
Init == Start({{Prefix, LibDir}})

(***************************************************************************)
(* The introspection tools.  A line of output is [kind, ref]:              *)
(*   ldd       "vdso", "ld" (the loader), "static", "dep" (name => path    *)
(*             (addr)), "notfound" (name => not found)                     *)
(*   otool -L  "hdr" (filename:), "dep" (name (compatibility ...))         *)
(* and "junk" is a line of neither grammar.                                *)
(***************************************************************************)
Line(k, r) == [kind |-> k, ref |-> r]

Junk(garbled) == IF garbled THEN <<Line("junk", NoRef)>> ELSE <<>>

\* where the loader finds reference r of file f: DT_RPATH first
LddResolve(disk, f, r) ==
    LET meta == disk[f]
        viaRpath == IF meta.rpath = <<>> THEN {}
                    ELSE {join(Resolve(dirname(f), meta.rpath[1]), r.base)}
                         \cap DOMAIN disk
    IN  IF viaRpath # {} THEN Line("dep", Abs(CHOOSE p \in viaRpath : TRUE))
        ELSE IF isfile(disk, PathOf(r)) THEN Line("dep", r)
        ELSE Line("notfound", r)

\* what `ldd filename` prints
LddOutput(disk, f) ==
    LET refs == disk[f].refs
    IN  IF refs = <<>> THEN <<Line("static", NoRef)>>
        ELSE <<Line("vdso", NoRef)>>
             \o [i \in 1..Len(refs) |-> LddResolve(disk, f, refs[i])]
             \o <<Line("ld", NoRef)>>

\* what `otool -L filename` prints: the install name of a library first
OtoolOutput(disk, f) ==
    LET meta == disk[f]
    IN  <<Line("hdr", Abs(f))>>
        \o (IF meta.id = NoRef THEN <<>> ELSE <<Line("dep", meta.id)>>)
        \o [i \in 1..Len(meta.refs) |-> Line("dep", meta.refs[i])]

(***************************************************************************)
(* _libc6_links: the lines of `dpkg -L libc6` that start with /lib/ and    *)
(* contain .so                                                             *)
(***************************************************************************)
DpkgLibc6 ==
    {Path(<<>>, "lib"), Path(<<"lib">>, "gnu"), SysLib,
     Path(<<"lib", "gnu">>, "ld-linux.so.1"),
     Path(<<"usr", "lib", "gconv">>, "BIG5.so"),
     Path(<<"usr", "share", "doc", "libc6">>, "NEWS.gz")}

\* line.startswith('/lib/')
StartsWithLib(p) == p.dir # <<>> /\ Head(p.dir) = "lib"

\* '.so' in line
ContainsSo(p) == p.base \in {"libc.so.6", "ld-linux.so.1", "BIG5.so"}

_libc6_links == {p \in DpkgLibc6 : StartsWithLib(p) /\ ContainsSo(p)}

(***************************************************************************)
(* plat.linked: the result is [ok, ret]; ok = FALSE is the AssertionError. *)
(***************************************************************************)
Raise == [ok |-> FALSE, ret |-> <<>>]

RECURSIVE LinuxLoop(_, _)
LinuxLoop(out, ret) ==
    IF out = <<>> THEN [ok |-> TRUE, ret |-> ret]
    ELSE LET line == Head(out)
         IN  IF line.kind # "dep"
             THEN IF line.kind \in {"static", "vdso", "ld"}
                  THEN LinuxLoop(Tail(out), ret)
                  ELSE Raise
             ELSE IF PathOf(line.ref) \notin _libc6_links
                  THEN LinuxLoop(Tail(out), Append(ret, PathOf(line.ref)))
                  ELSE LinuxLoop(Tail(out), ret)

\* a _linux_linked without the `not in ignored` test (sensitivity of C10)
RECURSIVE LinuxLoopAll(_, _)
LinuxLoopAll(out, ret) ==
    IF out = <<>> THEN [ok |-> TRUE, ret |-> ret]
    ELSE LET line == Head(out)
         IN  IF line.kind # "dep"
             THEN IF line.kind \in {"static", "vdso", "ld"}
                  THEN LinuxLoopAll(Tail(out), ret)
                  ELSE Raise
             ELSE LinuxLoopAll(Tail(out), Append(ret, PathOf(line.ref)))

_linux_linked_all(disk, filename, out) == LinuxLoopAll(out, <<>>)

_linux_linked(disk, filename, out) == LinuxLoop(out, <<>>)

RECURSIVE DarwinLoop(_, _, _, _)
DarwinLoop(disk, filename, out, ret) ==
    IF out = <<>> THEN [ok |-> TRUE, ret |-> ret]
    ELSE LET line == Head(out)
         IN  IF line.kind # "dep" THEN Raise
             ELSE IF line.ref = Abs(filename)
                  THEN DarwinLoop(disk, filename, Tail(out), ret)
             ELSE IF line.ref.kind = "abs" /\ isfile(disk, PathOf(line.ref))
                  THEN DarwinLoop(disk, filename, Tail(out),
                                  Append(ret, PathOf(line.ref)))
             ELSE DarwinLoop(disk, filename, Tail(out), ret)

\* a _darwin_linked without the `match[1] == filename` test (sensitivity
\* of C11)
RECURSIVE DarwinLoopSelf(_, _, _, _)
DarwinLoopSelf(disk, filename, out, ret) ==
    IF out = <<>> THEN [ok |-> TRUE, ret |-> ret]
    ELSE LET line == Head(out)
         IN  IF line.kind # "dep" THEN Raise
             ELSE IF line.ref.kind = "abs" /\ isfile(disk, PathOf(line.ref))
                  THEN DarwinLoopSelf(disk, filename, Tail(out),
                                      Append(ret, PathOf(line.ref)))
             ELSE DarwinLoopSelf(disk, filename, Tail(out), ret)

_darwin_linked_self(disk, filename, out) ==
    IF out = <<>> \/ Head(out) # Line("hdr", Abs(filename)) THEN Raise
    ELSE DarwinLoopSelf(disk, filename, Tail(out), <<>>)

\* a _darwin_linked without the os.path.isfile test (sensitivity of C9)
RECURSIVE DarwinLoopAll(_, _, _, _)
DarwinLoopAll(disk, filename, out, ret) ==
    IF out = <<>> THEN [ok |-> TRUE, ret |-> ret]
    ELSE LET line == Head(out)
         IN  IF line.kind # "dep" THEN Raise
             ELSE IF line.ref = Abs(filename)
                  THEN DarwinLoopAll(disk, filename, Tail(out), ret)
             ELSE IF line.ref.kind = "abs"
                  THEN DarwinLoopAll(disk, filename, Tail(out),
                                     Append(ret, PathOf(line.ref)))
             ELSE DarwinLoopAll(disk, filename, Tail(out), ret)

_darwin_linked_all(disk, filename, out) ==
    IF out = <<>> \/ Head(out) # Line("hdr", Abs(filename)) THEN Raise
    ELSE DarwinLoopAll(disk, filename, Tail(out), <<>>)

_darwin_linked(disk, filename, out) ==
    IF out = <<>> \/ Head(out) # Line("hdr", Abs(filename)) THEN Raise
    ELSE DarwinLoop(disk, filename, Tail(out), <<>>)

\* the introspection tool of the platform, and plat.linked on its output
ToolOutput(p, disk, f) ==
    IF p = "linux" THEN LddOutput(disk, f) ELSE OtoolOutput(disk, f)

plat_linked(p, disk, filename, out) ==
    IF p = "linux" THEN _linux_linked(disk, filename, out)
    ELSE _darwin_linked(disk, filename, out)

\* how a tool run ends: "exit" is a non-zero exit (CalledProcessError),
\* "junk" an output with a line the parser does not know
ToolEnds == {"ok", "exit", "junk"}

(***************************************************************************)
(* The log: one event per subprocess call and per shutil.copy.             *)
(*   op    "linked" (line 394), "relinked" (line 247), "rpath", "id",      *)
(*         "change", "sign" or "copy"                                      *)
(*   file  the binary inspected or rewritten; the source of a copy         *)
(*   arg   the new reference written; the destination of a copy            *)
(*         (the link replaced by a "change" is ret[1])                     *)
(*   ret   the list an inspection returned                                 *)
(*   tool  how the subprocess ended (ToolEnds)                             *)
(*   ok    FALSE: the call raised                                          *)
(*   walk, depth, set_name  the walk and the _relink_1 activation it is in *)
(***************************************************************************)
Event(op, f, arg, ret, tool, ok) ==
    [op |-> op, file |-> f, arg |-> arg, ret |-> ret, tool |-> tool,
     ok |-> ok, walk |-> walks + 1, depth |-> Len(stack),
     set_name |-> stack[Len(stack)].set_name]

Exit(ok) == IF ok THEN "ok" ELSE "exit"

(***************************************************************************)
(* _relink_1: a frame is one activation.  pc is the next statement:        *)
(*   "linked"  line 394      "relink"  line 395                            *)
(*   "relinked", "change", "sign"  inside _darwin_relink                   *)
(*   "copy"    the loop of lines 398-403, at linked[i]                     *)
(*   "recurse" the loop of lines 405-406, at to_link[j]                    *)
(***************************************************************************)
Frame(filename, set_name) ==
    [filename |-> filename, set_name |-> set_name, pc |-> "linked",
     linked |-> <<>>, i |-> 1, to_link |-> <<>>, j |-> 1,
     rl |-> <<>>, k |-> 1]

Top == stack[Len(stack)]

SetTop(fr) == [stack EXCEPT ![Len(stack)] = fr]

Running == stack # <<>> /\ ~failed

\* an exception that is caught and logged (sensitivity of C8)
Swallow(ev) ==
    /\ log' = Append(log, ev)
    /\ UNCHANGED <<main_vars, plat, graph, dirs, fs, stack, failed, walks>>

\* an exception: nothing catches it between _relink_1 and the interpreter
Abort(ev) ==
    /\ failed' = TRUE
    /\ log' = Append(log, ev)
    /\ UNCHANGED <<main_vars, plat, graph, dirs, fs, stack, walks>>

\* the statement after plat.relink returned
AfterRelink(fr) ==
    [fr EXCEPT !.pc = IF fr.linked = <<>> THEN "recurse" ELSE "copy"]

\* line 394: linked = plat.linked(filename)
Linked ==
    /\ Running
    /\ Top.pc = "linked"
    /\ \E tool \in (IF isfile(fs, Top.filename) THEN ToolEnds ELSE {"exit"}) :
         LET f == Top.filename
             out == ToolOutput(plat, fs, f) \o Junk(tool = "junk")
             r == plat_linked(plat, fs, f, out)
         IN  IF tool = "exit" \/ ~r.ok
             THEN Abort(Event("linked", f, NoRef, <<>>, tool, FALSE))
             ELSE /\ stack' = SetTop([Top EXCEPT !.linked = r.ret,
                                                 !.pc = "relink"])
                  /\ log' = Append(log, Event("linked", f, NoRef, r.ret,
                                              tool, TRUE))
                  /\ UNCHANGED <<main_vars, plat, graph, dirs, fs, failed, walks>>

\* lines 158-161: patchelf --force-rpath --set-rpath $ORIGIN/<relpath>
_linux_relink ==
    /\ Running
    /\ plat = "linux"
    /\ Top.pc = "relink"
    /\ \E ok \in BOOLEAN :
         LET f == Top.filename
             origin == relpath(LibDir, dirname(f))
             ev == Event("rpath", f, Loader(origin, ""), <<>>, Exit(ok), ok)
         IN  IF ~ok THEN Abort(ev)
             ELSE /\ fs' = [fs EXCEPT ![f].rpath = <<origin>>]
                  /\ stack' = SetTop(AfterRelink(Top))
                  /\ log' = Append(log, ev)
                  /\ UNCHANGED <<main_vars, plat, graph, dirs, failed, walks>>

\* lines 240-245: install_name_tool -id @loader_path/<basename>
DarwinSetName ==
    /\ Running
    /\ plat = "darwin"
    /\ Top.pc = "relink"
    /\ Top.set_name
    /\ \E ok \in BOOLEAN :
         LET f == Top.filename
             new == Loader(<<>>, basename(f))
             ev == Event("id", f, new, <<>>, Exit(ok), ok)
         IN  IF ~ok THEN Abort(ev)
             ELSE /\ fs' = [fs EXCEPT ![f].id = new, ![f].sig = "broken"]
                  /\ stack' = SetTop([Top EXCEPT !.pc = "relinked"])
                  /\ log' = Append(log, ev)
                  /\ UNCHANGED <<main_vars, plat, graph, dirs, failed, walks>>

\* line 247: the links to rewrite are _darwin_linked(filename), read now
DarwinRelinkLinked ==
    /\ Running
    /\ plat = "darwin"
    /\ \/ Top.pc = "relinked"
       \/ Top.pc = "relink" /\ ~Top.set_name
    /\ \E tool \in ToolEnds :
         LET f == Top.filename
             out == OtoolOutput(fs, f) \o Junk(tool = "junk")
             r == _darwin_linked(fs, f, out)
         IN  IF tool = "exit" \/ ~r.ok
             THEN Abort(Event("relinked", f, NoRef, <<>>, tool, FALSE))
             ELSE /\ stack' = SetTop([Top EXCEPT
                        !.rl = r.ret, !.k = 1,
                        !.pc = IF r.ret = <<>> THEN "sign" ELSE "change"])
                  /\ log' = Append(log, Event("relinked", f, NoRef, r.ret,
                                              tool, TRUE))
                  /\ UNCHANGED <<main_vars, plat, graph, dirs, fs, failed, walks>>

\* lines 248-252: install_name_tool -change link @loader_path/<relpath>
DarwinChange ==
    /\ Running
    /\ plat = "darwin"
    /\ Top.pc = "change"
    /\ \E ok \in BOOLEAN :
         LET f == Top.filename
             link == Top.rl[Top.k]
             soname == basename(link)
             new == Loader(relpath(LibDir, dirname(f)), soname)
             ev == Event("change", f, new, <<link>>, Exit(ok), ok)
             refs == fs[f].refs
         IN  IF ~ok THEN Abort(ev)
             ELSE /\ fs' = [fs EXCEPT
                        ![f].refs = [n \in 1..Len(refs) |->
                                       IF refs[n] = Abs(link) THEN new
                                       ELSE refs[n]],
                        ![f].sig = "broken"]
                  /\ stack' = SetTop([Top EXCEPT
                        !.k = @ + 1,
                        !.pc = IF Top.k = Len(Top.rl) THEN "sign"
                               ELSE "change"])
                  /\ log' = Append(log, ev)
                  /\ UNCHANGED <<main_vars, plat, graph, dirs, failed, walks>>

\* lines 254-256: codesign --force --sign -
DarwinCodesign ==
    /\ Running
    /\ plat = "darwin"
    /\ Top.pc = "sign"
    /\ \E ok \in BOOLEAN :
         LET f == Top.filename
             ev == Event("sign", f, NoRef, <<>>, Exit(ok), ok)
         IN  IF ~ok THEN Abort(ev)
             ELSE /\ fs' = [fs EXCEPT ![f].sig = "adhoc"]
                  /\ stack' = SetTop(AfterRelink(Top))
                  /\ log' = Append(log, ev)
                  /\ UNCHANGED <<main_vars, plat, graph, dirs, failed, walks>>

_darwin_relink ==
    \/ DarwinSetName
    \/ DarwinRelinkLinked
    \/ DarwinChange
    \/ DarwinCodesign

\* a copy loop without the os.path.exists test (sensitivity of C2 and C7)
CopyAlways(disk, libdir_so) == TRUE

\* line 401: not os.path.exists(libdir_so)
MustCopy(disk, libdir_so) == ~isfile(disk, libdir_so)

\* where shutil.copy(link, libdir) writes: into libdir when libdir is a
\* directory, and to the path libdir itself when it is not
CopyDest(link) ==
    IF LibDir \in dirs THEN join(LibDir, basename(link))
    ELSE Path(SubSeq(LibDir, 1, Len(LibDir) - 1), LibDir[Len(LibDir)])

\* a shutil.move in the place of shutil.copy (sensitivity of C15)
Move(disk, link, libdir_so) ==
    [p \in (DOMAIN disk \ {link}) \cup {libdir_so} |->
        IF p = libdir_so THEN disk[link] ELSE disk[p]]

\* shutil.copy(link, libdir): the file and its link metadata, as they are
Copy(disk, link, libdir_so) ==
    [p \in DOMAIN disk \cup {libdir_so} |->
        IF p = libdir_so THEN disk[link] ELSE disk[p]]

\* lines 398-403: one turn of `for link in linked`
CopyStep ==
    /\ Running
    /\ Top.pc = "copy"
    /\ LET link == Top.linked[Top.i]
           soname == basename(link)
           libdir_so == join(LibDir, soname)
           next == [Top EXCEPT !.i = @ + 1,
                               !.pc = IF Top.i = Len(Top.linked)
                                      THEN "recurse" ELSE "copy"]
       IN  IF MustCopy(fs, libdir_so)
           THEN /\ fs' = Copy(fs, link, CopyDest(link))
                /\ stack' = SetTop([next EXCEPT
                                      !.to_link = Append(@, libdir_so)])
                /\ log' = Append(log, Event("copy", link, Abs(CopyDest(link)),
                                            <<>>, "ok", TRUE))
                /\ UNCHANGED <<main_vars, plat, graph, dirs, failed, walks>>
           ELSE /\ stack' = SetTop(next)
                /\ UNCHANGED <<main_vars, plat, graph, dirs, fs, failed, walks, log>>

\* a second loop that skips the recursive call (sensitivity of C1)
CallSkipped ==
    /\ Running
    /\ Top.pc = "recurse"
    /\ Top.j <= Len(Top.to_link)
    /\ stack' = SetTop([Top EXCEPT !.j = @ + 1])
    /\ UNCHANGED <<main_vars, plat, graph, dirs, fs, failed, walks, log>>

\* a recursive call that leaves set_name at its default (sensitivity of C6)
CallAsRoot ==
    /\ Running
    /\ Top.pc = "recurse"
    /\ Top.j <= Len(Top.to_link)
    /\ stack' = Append(SetTop([Top EXCEPT !.j = @ + 1]),
                       Frame(Top.to_link[Top.j], FALSE))
    /\ UNCHANGED <<main_vars, plat, graph, dirs, fs, failed, walks, log>>

\* lines 405-406: _relink_1(libdir_so, libdir, set_name=True)
Call ==
    /\ Running
    /\ Top.pc = "recurse"
    /\ Top.j <= Len(Top.to_link)
    /\ stack' = Append(SetTop([Top EXCEPT !.j = @ + 1]),
                       Frame(Top.to_link[Top.j], TRUE))
    /\ UNCHANGED <<main_vars, plat, graph, dirs, fs, failed, walks, log>>

\* a return that only the outermost activation makes (sensitivity of C3)
ReturnOutermost ==
    /\ Running
    /\ Top.pc = "recurse"
    /\ Top.j > Len(Top.to_link)
    /\ Len(stack) = 1
    /\ stack' = <<>>
    /\ walks' = walks + 1
    /\ UNCHANGED <<main_vars, plat, graph, dirs, fs, failed, log>>

\* the end of _relink_1: back to the caller
Return ==
    /\ Running
    /\ Top.pc = "recurse"
    /\ Top.j > Len(Top.to_link)
    /\ stack' = SubSeq(stack, 1, Len(stack) - 1)
    /\ walks' = IF Len(stack) = 1 THEN walks + 1 ELSE walks
    /\ UNCHANGED <<main_vars, plat, graph, dirs, fs, failed, log>>

_relink_1 ==
    \/ Linked
    \/ _linux_relink
    \/ _darwin_relink
    \/ CopyStep
    \/ Call
    \/ Return

\* lines 412 and 416, and the test: _relink_1(root, libdir)
StartWalk(root) ==
    /\ isfile(fs, root)
    /\ stack = <<>>
    /\ ~failed
    /\ walks < MaxWalks
    /\ stack' = <<Frame(root, FALSE)>>
    /\ UNCHANGED <<main_vars, plat, graph, dirs, fs, failed, walks, log>>

Next ==
    \/ \E root \in Roots : StartWalk(root)
    \/ _relink_1

Spec == Init /\ [][Next]_vars

\* lines 304-312, as main calls it at line 458
_sanitize_environ ==
    /\ pc = "sanitize"
    /\ environ' = sanitized(environ)
    /\ pc' = "setup_deps"
    /\ UNCHANGED <<steps, plat, graph, dirs, fs, stack, failed, walks, log>>

\* an exception in main: nothing catches it
Raises ==
    /\ failed' = TRUE
    /\ UNCHANGED <<main_vars, plat, graph, dirs, fs, stack, walks, log>>

\* main goes on to statement next, with build step done carried out
Goes(next, done) ==
    /\ pc' = next
    /\ steps' = steps \o done
    /\ UNCHANGED <<environ, plat, graph, dirs, fs, stack, failed, walks, log>>

\* line 459: plat.setup_deps(version); its return value is dropped.  On
\* linux outside the container the process is replaced (os.execvp)
SetupDeps ==
    /\ pc = "setup_deps"
    /\ ~failed
    /\ \/ Goes("modify_env", <<>>)
       \/ plat = "linux" /\ Goes("execvp", <<>>)
       \/ plat = "darwin" /\ Raises

\* line 460: plat.modify_env(os.environ)
ModifyEnv ==
    /\ pc = "modify_env"
    /\ ~failed
    /\ IF plat = "linux" THEN Goes("already_built", <<>>)
       ELSE \/ Raises
            \/ /\ environ' = setitem(setitem(setitem(environ,
                                 "CPPFLAGS", "-Ibrew"),
                                 "LDFLAGS", "-Lbrew"),
                                 "PKG_CONFIG_PATH", "brew/lib/pkgconfig")
               /\ pc' = "already_built"
               /\ UNCHANGED <<steps, plat, graph, dirs, fs, stack, failed,
                              walks, log>>

\* lines 462-465: if already_built(archive_name): return 0
AlreadyBuilt ==
    /\ pc = "already_built"
    /\ ~failed
    /\ \/ Goes("return 0", <<>>)
       \/ Goes("download", <<>>)
       \/ Raises

\* lines 468-470: _download(python, tgz)
Download ==
    /\ pc = "download"
    /\ ~failed
    /\ \/ Goes("extract", <<"download">>)
       \/ Raises

\* lines 472-474: _extract_strip_1(tgz, build_dir)
Extract ==
    /\ pc = "extract"
    /\ ~failed
    /\ \/ Goes("build", <<"extract">>)
       \/ Raises

\* lines 476-479: if _build(build_dir, prefix): return 1.  make install
\* writes the tree below prefix
Build ==
    /\ pc = "build"
    /\ ~failed
    /\ \/ Goes("return 1", <<>>)
       \/ Raises
       \/ /\ pc' = "clean"
          /\ steps' = Append(steps, "build")
          /\ dirs' = {Prefix, LibDir}
          /\ fs' = Disk(plat, graph, {Prefix, LibDir})
          /\ UNCHANGED <<environ, plat, graph, stack, failed, walks, log>>

\* lines 481-482: _clean(prefix, version)
Clean ==
    /\ pc = "clean"
    /\ ~failed
    /\ \/ Goes("relink", <<"clean">>)
       \/ Raises

\* the binaries _relink walks, in order (lines 412-416)
RelinkOrder == <<Exe, DynSo>>

\* a _relink that walks the executable alone (sensitivity of C14)
_relink_exe ==
    /\ pc = "relink"
    /\ stack = <<>>
    /\ ~failed
    /\ IF walks < 1 THEN StartWalk(RelinkOrder[walks + 1])
       ELSE Goes("archive", <<"relink">>)

\* lines 484-485 and 409-416: _relink(prefix, version)
_relink ==
    /\ pc = "relink"
    /\ stack = <<>>
    /\ ~failed
    /\ IF walks < Len(RelinkOrder) THEN StartWalk(RelinkOrder[walks + 1])
       ELSE Goes("archive", <<"relink">>)

\* lines 487-490: _archive(prefix, archive); shutil.move(archive, 'dist')
Archive ==
    /\ pc = "archive"
    /\ ~failed
    /\ \/ Goes("return 0", <<"archive">>)
       \/ Raises

main ==
    \/ _sanitize_environ
    \/ SetupDeps
    \/ ModifyEnv
    \/ AlreadyBuilt
    \/ Download
    \/ Extract
    \/ Build
    \/ Clean
    \/ _relink
    \/ _relink_1
    \/ Archive

\* the environments main is run in
MainEnvirons == {e \in Environs : DOMAIN e = EnvNames}

\* main from its first statement: nothing is below prefix before the build
MainInit ==
    /\ environ \in MainEnvirons
    /\ pc = "sanitize"
    /\ steps = <<>>
    /\ plat \in Plats
    /\ graph \in Graphs
    /\ plat = "linux" => \A f \in Roots : f \notin Range(graph[f])
    /\ dirs = {}
    /\ fs = Disk(plat, graph, dirs)
    /\ stack = <<>>
    /\ failed = FALSE
    /\ walks = 0
    /\ log = <<>>

MainSpec == MainInit /\ [][main]_vars

\* _sanitize_environ on any environment
EnvInit ==
    /\ environ \in Environs
    /\ pc = "sanitize"
    /\ steps = <<>>
    /\ plat \in Plats
    /\ graph = EmptyGraph
    /\ dirs = {}
    /\ fs = Disk(plat, graph, dirs)
    /\ stack = <<>>
    /\ failed = FALSE
    /\ walks = 0
    /\ log = <<>>

EnvNext == _sanitize_environ

EnvSpec == EnvInit /\ [][EnvNext]_vars

\* _relink_1 called by itself (as the test calls it), with a libdir that
\* exists or does not
AnyDirInit == Start({{Prefix, LibDir}, {Prefix}})

AnyDirSpec == AnyDirInit /\ [][Next]_vars

(***************************************************************************)
(* What the claims speak of.                                               *)
(***************************************************************************)
\* no walk is running and none failed
Idle == stack = <<>> /\ ~failed

\* the files of the destination directory
LibdirFiles(disk) == {p \in DOMAIN disk : dirname(p) = LibDir}

Names(S) == {basename(p) : p \in S}

\* the events of the log that satisfy Test
Events(Test(_)) == {i \in 1..Len(log) : Test(log[i])}

IsCopy(e) == e.op = "copy"

\* the root of walk w: the binary of the walk's first event
RootOf(w) ==
    LET first == CHOOSE i \in 1..Len(log) :
                    /\ log[i].walk = w
                    /\ \A j \in 1..(i - 1) : log[j].walk # w
    IN  log[first].file

\* the non-system libraries binary f referenced before any walk
Deps0(f) ==
    ((Range(graph[f]) \cap OnDisk(plat)) \ _libc6_links) \ {f}

RECURSIVE Reach0(_)
Reach0(S) ==
    LET T == S \cup UNION {Deps0(f) : f \in S}
    IN  IF T = S THEN S ELSE Reach0(T)

\* the direct and transitive non-system dependencies of a root
ClosureOf(root) == Reach0(Deps0(root))

UniqueNames(S) == \A p, q \in S : basename(p) = basename(q) => p = q

FirstWalkDone == walks = 1 /\ Idle /\ log # <<>>

(***************************************************************************)
(* C1 as stated: closure completeness.  After a walk that started with an  *)
(* empty destination directory and completed, the directory holds exactly  *)
(* one file per distinct base name among the root's direct and transitive  *)
(* non-system dependencies.                                                *)
(***************************************************************************)
C1_ClosureCompleteAsStated ==
    FirstWalkDone =>
        Names(LibdirFiles(fs)) = Names(ClosureOf(RootOf(1)))

(***************************************************************************)
(* C1 amended: the same, when no two distinct libraries among the root's   *)
(* dependencies share a base name; in every case the directory holds only  *)
(* base names of the root's dependencies, one file each.                   *)
(***************************************************************************)
C1_ClosureComplete ==
    FirstWalkDone =>
        LET closure == ClosureOf(RootOf(1))
            files == LibdirFiles(fs)
        IN  /\ Names(files) \subseteq Names(closure)
            /\ Cardinality(files) = Cardinality(Names(files))
            /\ UniqueNames(closure) =>
                 /\ files = {join(LibDir, basename(p)) : p \in closure}
                 /\ Cardinality(files) = Cardinality(closure)

\* C1 witness: a completed first walk that vendored a dependency of a
\* dependency, all base names distinct
C1_Witness ==
    /\ FirstWalkDone
    /\ UniqueNames(ClosureOf(RootOf(1)))
    /\ ClosureOf(RootOf(1)) # Deps0(RootOf(1))
    /\ Cardinality(LibdirFiles(fs)) >= 2

(***************************************************************************)
(* C2: each base name is copied into the destination directory at most     *)
(* once, and a copy is made only when no file of that base name is there,  *)
(* so a second source path of the same base name never overwrites the      *)
(* first.                                                                  *)
(***************************************************************************)
CopiedAtMostOnce ==
    \A i, j \in Events(IsCopy) :
        basename(log[i].arg) = basename(log[j].arg) => i = j

CopyOnlyIfAbsent ==
    (Len(log') = Len(log) + 1 /\ log'[Len(log')].op = "copy") =>
        LET dest == PathOf(log'[Len(log')].arg)
        IN  /\ dirname(dest) = LibDir
            /\ ~isfile(fs, dest)
            /\ \A p \in LibdirFiles(fs) : isfile(fs', p) /\ fs'[p] = fs[p]

C2_CopiedOncePerName == []CopiedAtMostOnce /\ [][CopyOnlyIfAbsent]_vars

\* C2 witness: a second source path of a copied base name was met and
\* skipped: the copy in the directory is still the first one, untouched
C2_Witness ==
    /\ Idle
    /\ \E i \in Events(IsCopy) :
         \E j \in Events(LAMBDA e : e.op = "linked" /\ e.ok) :
            /\ j > i
            /\ \E q \in Range(log[j].ret) :
                 /\ basename(q) = basename(log[i].file)
                 /\ q # log[i].file
                 /\ q \in Libs

(***************************************************************************)
(* C3: the walk terminates on every finite graph, cycles included: each    *)
(* library is enqueued at most once, so a walk runs _relink_1 at most      *)
(* 1 + (number of distinct base names among the root's dependencies)       *)
(* times.                                                                  *)
(***************************************************************************)
\* the _relink_1 activations of walk w: one inspection (line 394) each
Activations(w) == Events(LAMBDA e : e.op = "linked" /\ e.walk = w)

EnqueuedAtMostOnce ==
    /\ \A w \in 1..(walks + 1) :
         Activations(w) # {} =>
           Cardinality(Activations(w)) <=
               1 + Cardinality(Names(ClosureOf(RootOf(w))))
    /\ \A i, j \in Events(LAMBDA e : e.op = "linked") :
         (log[i].file = log[j].file /\ log[i].file \notin Roots) => i = j
    /\ \A a, b \in 1..Len(stack) :
         stack[a].filename = stack[b].filename => a = b

WalkTerminates == (stack # <<>>) ~> (stack = <<>> \/ failed)

C3_WalkTerminates == []EnqueuedAtMostOnce /\ WalkTerminates

\* C3 witness: a walk over two libraries that reference each other
\* came to its end
C3_Witness ==
    /\ Idle
    /\ walks >= 1
    /\ \E p, q \in LibdirFiles(fs) :
         /\ p # q
         /\ \E i \in Events(IsCopy) : PathOf(log[i].arg) = p
                /\ \E j \in Events(IsCopy) : PathOf(log[j].arg) = q
                      /\ log[j].file \in Deps0(log[i].file)
                      /\ log[i].file \in Deps0(log[j].file)

\* the statements of a running walk are always taken in the end: the
\* interpreter runs _relink_1 to its return or to an exception.  The
\* behaviours are those of the graphs where the executable alone has
\* references.
FairInit == Init /\ graph[DynSo] = <<>>

FairSpec == FairInit /\ [][Next]_vars /\ WF_vars(_relink_1)

(***************************************************************************)
(* C4: after a walk completed, every binary of the closure (the root and   *)
(* every file of the destination directory a member references by base     *)
(* name) has each non-system reference found inside the destination        *)
(* directory by a path relative to the binary's own directory.             *)
(***************************************************************************)
\* a reference the Relinker leaves alone: to the base system, or to no file
IsSystemRef(disk, r) ==
    r.kind = "abs" /\ (~isfile(disk, PathOf(r)) \/ PathOf(r) \in _libc6_links)

\* reference r of binary m is found relative to m's directory ...
FoundRelative(disk, m, r) ==
    IF plat = "linux"
    THEN /\ disk[m].rpath # <<>>
         /\ isfile(disk, join(Resolve(dirname(m), disk[m].rpath[1]), r.base))
    ELSE r.kind = "loader"

\* ... in this file
FoundAt(disk, m, r) ==
    IF plat = "linux"
    THEN PathOf(LddResolve(disk, m, r).ref)
    ELSE IF r.kind = "loader" THEN Path(Resolve(dirname(m), r.dir), r.base)
         ELSE PathOf(r)

Relocatable(disk, m) ==
    \A r \in Range(disk[m].refs) :
        \/ IsSystemRef(disk, r)
        \/ /\ FoundRelative(disk, m, r)
           /\ FoundAt(disk, m, r) \in LibdirFiles(disk)

\* the roots of the walks that returned
WalkedRoots ==
    {log[i].file : i \in Events(LAMBDA e : e.op = "linked" /\ e.depth = 1
                                           /\ e.walk <= walks)}

RECURSIVE MembersFrom(_)
MembersFrom(S) ==
    LET T == S \cup
             (UNION {{join(LibDir, r.base) :
                        r \in {x \in Range(fs[m].refs) : ~IsSystemRef(fs, x)}}
                     : m \in S}
              \cap DOMAIN fs)
    IN  IF T = S THEN S ELSE MembersFrom(T)

Members == MembersFrom(WalkedRoots)

C4_ReferencesInsideLibdir ==
    (Idle /\ walks >= 1) => \A m \in Members : Relocatable(fs, m)

\* C4 witness: a completed walk of the extension module (two directories
\* below the destination directory) whose vendored library has a vendored
\* dependency of its own
C4_Witness ==
    /\ Idle
    /\ walks >= 1
    /\ DynSo \in WalkedRoots
    /\ \E m \in Members \cap LibdirFiles(fs) :
         \E r \in Range(fs[m].refs) : ~IsSystemRef(fs, r)

(***************************************************************************)
(* C5 as stated: the walk is breadth first: after the root, every library  *)
(* at depth d is inspected and relinked before any library at depth d + 1. *)
(***************************************************************************)
C5_BreadthFirst ==
    \A i, j \in Events(LAMBDA e : e.op # "copy") :
        (i < j /\ log[i].walk = log[j].walk) => log[i].depth <= log[j].depth

(***************************************************************************)
(* C6 as stated: the Relinker runs with set_name false on the root and     *)
(* true on every vendored library; whenever set_name is true the binary's  *)
(* identity is rewritten to a loader-relative form before any of its       *)
(* references is rewritten; the identity of a root is never rewritten.     *)
(***************************************************************************)
IsRelinkOp(e) == e.op \in {"rpath", "id", "relinked", "change", "sign"}

SetNameFlags ==
    \A i \in Events(IsRelinkOp) :
        /\ log[i].set_name <=> log[i].depth > 1
        /\ log[i].depth = 1 <=> log[i].file \in Roots
        /\ log[i].depth > 1 <=> dirname(log[i].file) = LibDir

RootIdentityKept ==
    /\ \A i \in Events(LAMBDA e : e.op = "id") : log[i].file \notin Roots
    /\ \A root \in Roots : fs[root].id = Disk(plat, graph, dirs)[root].id

\* the identity of the binary of event i was rewritten before event i
IdentityFirst(i) ==
    \E j \in 1..(i - 1) :
        /\ log[j].op = "id"
        /\ log[j].ok
        /\ log[j].file = log[i].file
        /\ log[j].arg = Loader(<<>>, basename(log[i].file))

C6_IdentityAsStated ==
    /\ SetNameFlags
    /\ RootIdentityKept
    /\ \A i \in Events(LAMBDA e : e.op \in {"rpath", "change"} /\ e.set_name) :
         IdentityFirst(i)

(***************************************************************************)
(* C6 amended: set_name is false on the root and true on every vendored    *)
(* library, and the identity of a root is never rewritten; on darwin a     *)
(* set_name of true rewrites the identity to @loader_path/<base name>      *)
(* before the references are read and rewritten; on linux set_name is      *)
(* ignored and no identity is rewritten.                                   *)
(***************************************************************************)
C6_Identity ==
    /\ SetNameFlags
    /\ RootIdentityKept
    /\ plat = "darwin" =>
         \A i \in Events(LAMBDA e : e.op \in {"relinked", "change", "sign"}
                                    /\ e.set_name) :
            IdentityFirst(i)
    /\ plat = "linux" =>
         /\ Events(LAMBDA e : e.op = "id") = {}
         /\ \A p \in DOMAIN fs : fs[p].id = NoRef

\* C6 witness: on darwin a vendored library had a reference rewritten
C6_Witness ==
    /\ plat = "darwin"
    /\ \E i \in Events(LAMBDA e : e.op = "change" /\ e.ok) :
         /\ log[i].set_name
         /\ fs[log[i].file].id = Loader(<<>>, basename(log[i].file))

(***************************************************************************)
(* C7: a walk of a root that an earlier walk already walked to its end,    *)
(* into the same destination directory, copies nothing and leaves the      *)
(* files of the directory and their content as they are.                   *)
(***************************************************************************)
Rewalk == stack # <<>> /\ stack[1].filename \in WalkedRoots

LibdirUnchanged ==
    /\ LibdirFiles(fs') = LibdirFiles(fs)
    /\ \A p \in LibdirFiles(fs) : fs'[p] = fs[p]

NoCopyLogged ==
    Events(IsCopy)' = Events(IsCopy)

C7_SecondWalkIsNoOp == [][Rewalk => (LibdirUnchanged /\ NoCopyLogged)]_vars

\* C7 witness: the second walk of a root came to its end over a
\* destination directory the first walk had filled
C7_Witness ==
    /\ Idle
    /\ walks = 2
    /\ RootOf(1) = RootOf(2)
    /\ Cardinality(LibdirFiles(fs)) >= 2

(***************************************************************************)
(* C8: fail fast.  A tool step that fails (an unrecognised line of         *)
(* introspection output, a non-zero exit, a signature failure) is the last *)
(* thing the walk does: no copy, inspection or rewrite follows, nothing is *)
(* retried, and what was written stays written.                            *)
(***************************************************************************)
FailureIsLast ==
    /\ \A i \in 1..Len(log) :
         (log[i].tool # "ok" \/ ~log[i].ok) =>
            /\ ~log[i].ok
            /\ i = Len(log)
            /\ failed
    /\ failed => (log # <<>> /\ ~log[Len(log)].ok)

NothingAfterFailure ==
    /\ failed => UNCHANGED vars
    /\ failed' => (fs' = fs /\ stack' = stack)

C8_FailFast == []FailureIsLast /\ [][NothingAfterFailure]_vars

\* C8 witness: the signature of a vendored library failed after libraries
\* had been copied; the copies are still there
C8_Witness ==
    /\ failed
    /\ log[Len(log)].op = "sign"
    /\ dirname(log[Len(log)].file) = LibDir
    /\ \A i \in Events(IsCopy) : isfile(fs, PathOf(log[i].arg))
    /\ Cardinality(Events(IsCopy)) >= 2

(***************************************************************************)
(* C9 as stated: a reference that no file on disk stands for is not an     *)
(* error: the Link Inspector leaves it out of its list, the walk goes on,  *)
(* and the reference is neither copied nor enqueued.                       *)
(***************************************************************************)
IsInspection(e) == e.op \in {"linked", "relinked"}

\* the references of binary f that no file stands for
Missing(disk, f) ==
    {PathOf(r) : r \in {x \in Range(disk[f].refs) :
        /\ x.kind = "abs"
        /\ IF plat = "linux" THEN LddResolve(disk, f, x).kind = "notfound"
           ELSE ~isfile(disk, PathOf(x))}}

\* the last event is an inspection whose tool ran well on a binary with a
\* reference no file stands for (the disk is still as the tool saw it)
InspectedMissing ==
    /\ log # <<>>
    /\ IsInspection(log[Len(log)])
    /\ log[Len(log)].tool = "ok"
    /\ Missing(fs, log[Len(log)].file) # {}

NeverOffDisk ==
    /\ \A i \in Events(IsCopy) : isfile(fs, log[i].file)
    /\ \A n \in 1..Len(stack) :
         /\ isfile(fs, stack[n].filename)
         /\ \A q \in Range(stack[n].linked) \cup Range(stack[n].to_link) :
              isfile(fs, q)

C9_MissingIsNoErrorAsStated ==
    /\ InspectedMissing =>
         /\ log[Len(log)].ok
         /\ ~failed
         /\ Range(log[Len(log)].ret) \cap Missing(fs, log[Len(log)].file) = {}
    /\ NeverOffDisk

(***************************************************************************)
(* C9 amended: on darwin a reference that no file stands for is not an     *)
(* error: _darwin_linked leaves it out, the walk goes on, and it is        *)
(* neither copied nor enqueued.  On linux ldd prints "not found" for it,   *)
(* which _linux_linked takes for an unexpected line: it raises and the     *)
(* walk aborts.  On both nothing off the disk is copied or enqueued.       *)
(***************************************************************************)
C9_MissingIsNoError ==
    /\ (InspectedMissing /\ plat = "darwin") =>
         /\ log[Len(log)].ok
         /\ ~failed
         /\ Range(log[Len(log)].ret) \cap Missing(fs, log[Len(log)].file) = {}
    /\ (InspectedMissing /\ plat = "linux") =>
         /\ ~log[Len(log)].ok
         /\ failed
    /\ NeverOffDisk

\* C9 witness: on darwin a walk came to its end and vendored a library
\* of a root that also references a library no file stands for
C9_Witness ==
    /\ plat = "darwin"
    /\ Idle
    /\ walks >= 1
    /\ \E root \in WalkedRoots : GoneLib \in Range(graph[root])
    /\ LibdirFiles(fs) # {}

(***************************************************************************)
(* C10: base-system exclusion.  A reference found in the exclusion set     *)
(* (_libc6_links), and the loader and vdso lines, are never in the list    *)
(* the Link Inspector returns; the other references keep the order the     *)
(* tool printed them in; no file of the exclusion set is ever copied into  *)
(* the destination directory.                                              *)
(***************************************************************************)
\* the paths of the "dep" lines of a tool output, in order
DepPaths(out) ==
    LET deps == SelectSeq(out, LAMBDA l : l.kind = "dep")
    IN  [n \in 1..Len(deps) |-> deps[n].ref]

\* what the Link Inspector is to return for binary f
Wanted(disk, f) ==
    LET refs == DepPaths(ToolOutput(plat, disk, f))
        kept == SelectSeq(refs, LAMBDA r :
                    IF plat = "linux" THEN PathOf(r) \notin _libc6_links
                    ELSE /\ r.kind = "abs"
                         /\ PathOf(r) # f
                         /\ isfile(disk, PathOf(r)))
    IN  [n \in 1..Len(kept) |-> PathOf(kept[n])]

C10_BaseSystemExcluded ==
    /\ \A i \in Events(IsInspection) :
         Range(log[i].ret) \cap (_libc6_links \cup {PathOf(NoRef)}) = {}
    /\ (log # <<>> /\ IsInspection(log[Len(log)]) /\ log[Len(log)].ok) =>
         log[Len(log)].ret = Wanted(fs, log[Len(log)].file)
    /\ \A n \in 1..Len(stack) :
         stack[n].pc = "relink" =>
            stack[n].linked = Wanted(fs, stack[n].filename)
    /\ \A i \in Events(IsCopy) : log[i].file \notin _libc6_links
    /\ LibdirFiles(fs) \cap {join(LibDir, basename(p)) : p \in _libc6_links} = {}

\* C10 witness: on linux a walk came to its end for a root that references
\* the base system's library first and a library to vendor after it
C10_Witness ==
    /\ plat = "linux"
    /\ Idle
    /\ walks >= 1
    /\ \E root \in WalkedRoots :
         /\ Len(graph[root]) = 2
         /\ graph[root][1] = SysLib
         /\ join(LibDir, basename(graph[root][2])) \in LibdirFiles(fs)

(***************************************************************************)
(* C11: self-reference filtering.  When the introspection output for a     *)
(* binary lists the binary itself, the list the Link Inspector returns     *)
(* leaves that entry out, so a binary is never copied or enqueued as its   *)
(* own dependency.                                                         *)
(***************************************************************************)
\* the introspection output for binary f lists f itself
ListsItself(disk, f) ==
    \E n \in 1..Len(ToolOutput(plat, disk, f)) :
        ToolOutput(plat, disk, f)[n] = Line("dep", Abs(f))

\* the binary of the activation that event i belongs to
OwnerOf(i) ==
    LET opened == {j \in 1..i : /\ log[j].op = "linked"
                                /\ log[j].walk = log[i].walk
                                /\ log[j].depth = log[i].depth}
    IN  log[CHOOSE j \in opened : \A k \in opened : k <= j].file

C11_SelfReferenceFiltered ==
    /\ \A i \in Events(LAMBDA e : IsInspection(e) /\ e.ok) :
         log[i].file \notin Range(log[i].ret)
    /\ \A n \in 1..Len(stack) :
         stack[n].filename \notin
            (Range(stack[n].linked) \cup Range(stack[n].to_link)
             \cup Range(stack[n].rl))
    /\ \A i \in Events(IsCopy) :
         /\ log[i].file # OwnerOf(i)
         /\ PathOf(log[i].arg) # OwnerOf(i)
         /\ PathOf(log[i].arg) # log[i].file

\* C11 witness: on darwin the extension module, which otool -L lists
\* under its own path, was walked to the end: a library of it was vendored
\* and the module itself was not
C11_Witness ==
    /\ plat = "darwin"
    /\ Idle
    /\ walks >= 1
    /\ DynSo \in WalkedRoots
    /\ ListsItself(fs, DynSo)
    /\ LibdirFiles(fs) # {}
    /\ join(LibDir, basename(DynSo)) \notin LibdirFiles(fs)

(***************************************************************************)
(* C12 as stated: when the destination directory does not exist at the     *)
(* start of the walk it is created as a directory, and every vendored      *)
(* library is placed inside it as a file of its own, named by its base     *)
(* name.                                                                   *)
(***************************************************************************)
C12_LibdirCreated ==
    \A i \in Events(IsCopy) :
        /\ LibDir \in dirs
        /\ PathOf(log[i].arg) = join(LibDir, basename(log[i].file))
        /\ isfile(fs, join(LibDir, basename(log[i].file)))

(***************************************************************************)
(* C13 as stated: _sanitize_environ removes exactly CFLAGS, CPPFLAGS,      *)
(* LDFLAGS and PKG_CONFIG_PATH, sets HOMEBREW_NO_AUTO_UPDATE to "1", and   *)
(* leaves every other variable, PATH included, with the value it had.      *)
(***************************************************************************)
SanitizeStep == pc = "sanitize" /\ pc' # "sanitize"

C13_EnvironSanitized ==
    [][SanitizeStep =>
        /\ DOMAIN environ' =
              (DOMAIN environ \ BuildFlags) \cup {"HOMEBREW_NO_AUTO_UPDATE"}
        /\ environ'["HOMEBREW_NO_AUTO_UPDATE"] = "1"
        /\ \A n \in (DOMAIN environ \ BuildFlags)
                      \ {"HOMEBREW_NO_AUTO_UPDATE"} :
              environ'[n] = environ[n]]_vars

(***************************************************************************)
(* C14: main carries out download, extract, build, clean, relink, archive  *)
(* in that order, each after the one before it is done; the archive is     *)
(* made only after the closure walks of the executable and of every        *)
(* lib-dynload module came to their end; when the build fails main returns *)
(* 1 and nothing is cleaned, relinked or archived; when the archive is     *)
(* already built main returns 0 and nothing is downloaded, built,          *)
(* relinked or archived.                                                   *)
(***************************************************************************)
StepOrder == <<"download", "extract", "build", "clean", "relink", "archive">>

\* the steps before step name, in order
Before(name) ==
    LET n == CHOOSE i \in 1..Len(StepOrder) : StepOrder[i] = name
    IN  SubSeq(StepOrder, 1, n - 1)

\* a closure walk has begun: something was inspected, rewritten or copied
Relinking == stack # <<>> \/ walks > 0 \/ log # <<>>

StepsInOrder ==
    /\ \E n \in 0..Len(StepOrder) : steps = SubSeq(StepOrder, 1, n)
    /\ pc \in Range(StepOrder) => steps = Before(pc)
    /\ Relinking => (pc = "relink" \/ "relink" \in Range(steps))
    /\ "relink" \in Range(steps) =>
          /\ stack = <<>>
          /\ walks = Len(RelinkOrder)
          /\ \A w \in 1..walks : RootOf(w) = RelinkOrder[w]
          /\ \A root \in Roots : root \in WalkedRoots
          /\ \A n \in 1..Len(log) : log[n].ok
    /\ pc = "return 1" => (steps = Before("build") /\ ~Relinking)
    /\ pc = "return 0" => (steps = <<>> \/ steps = StepOrder)
    /\ steps = <<>> => ~Relinking

\* the two early returns, and the end of main
Returns ==
    /\ (pc = "already_built" /\ pc' = "return 0") =>
          (steps' = <<>> /\ fs' = fs /\ ~Relinking')
    /\ (pc = "build" /\ pc' = "return 1") =>
          (steps' = Before("build") /\ fs' = fs /\ ~Relinking')
    /\ pc \in {"return 0", "return 1", "execvp"} => UNCHANGED vars

C14_StepsInOrder == []StepsInOrder /\ [][Returns]_vars

\* C14 witness: main returned 0 with every step done, the walks having
\* vendored a library for the executable and one for the extension module
C14_Witness ==
    /\ pc = "return 0"
    /\ steps = StepOrder
    /\ \E i, j \in Events(IsCopy) : log[i].walk = 1 /\ log[j].walk = 2

(***************************************************************************)
(* C15: over the closure walks that share the destination directory, only  *)
(* the roots and the files of the destination directory are mutated: the   *)
(* source libraries are never modified or deleted; a vendored library is   *)
(* copied as it is and then relinked exactly once, in the walk that copied *)
(* it; a library of the directory is never overwritten, nor relinked       *)
(* again by a later walk.                                                  *)
(***************************************************************************)
\* the event that copied file p of the destination directory
CopyOf(p) == CHOOSE i \in Events(IsCopy) : PathOf(log[i].arg) = p

\* the runs of plat.relink on file p: the first subprocess of each
RelinkRuns(p) ==
    Events(LAMBDA e : /\ e.file = p
                      /\ e.op = IF plat = "linux" THEN "rpath"
                                ELSE IF e.set_name THEN "id" ELSE "relinked")

\* the runs of plat.relink on file p that came to their end
Relinked(p) ==
    Events(LAMBDA e : /\ e.file = p
                      /\ e.ok
                      /\ e.op = IF plat = "linux" THEN "rpath" ELSE "sign")

SourcesKept ==
    \A p \in OnDisk(plat) \ Roots :
        isfile(fs, p) /\ fs[p] = Disk(plat, graph, dirs)[p]

RelinkedOnce ==
    \A p \in LibdirFiles(fs) :
        /\ Cardinality({i \in Events(IsCopy) : PathOf(log[i].arg) = p}) = 1
        /\ Cardinality(RelinkRuns(p)) <= 1
        /\ \A i \in Events(IsRelinkOp) :
              log[i].file = p =>
                 (i > CopyOf(p) /\ log[i].walk = log[CopyOf(p)].walk)
        /\ log[CopyOf(p)].walk <= walks => Cardinality(Relinked(p)) = 1

OnlyRootsAndLibdir ==
    /\ \A p \in DOMAIN fs :
          /\ isfile(fs', p)
          /\ fs'[p] # fs[p] =>
                /\ stack # <<>>
                /\ p = Top.filename
                /\ p \in Roots \/ dirname(p) = LibDir
                /\ p \in Roots \/ log[CopyOf(p)].walk = walks + 1
    /\ \A p \in DOMAIN fs' \ DOMAIN fs :
          /\ dirname(p) = LibDir
          /\ IsCopy(log'[Len(log')])
          /\ PathOf(log'[Len(log')].arg) = p
          /\ fs'[p] = fs[log'[Len(log')].file]
          /\ log'[Len(log')].file \notin LibdirFiles(fs)

C15_OnlyRootsAndLibdir ==
    []SourcesKept /\ []RelinkedOnce /\ [][OnlyRootsAndLibdir]_vars

\* C15 witness: the walk of the executable vendored and relinked a library
\* that the extension module, walked after it, references too
C15_Witness ==
    /\ Idle
    /\ walks = 2
    /\ RootOf(1) = Exe
    /\ RootOf(2) = DynSo
    /\ \E i \in Events(IsCopy) :
         /\ log[i].walk = 1
         /\ log[i].file \in Range(graph[DynSo])
         /\ Cardinality(Relinked(PathOf(log[i].arg))) = 1
====
